---- MODULE Spec2Model ----
(***************************************************************************)
(* Citation formatting of the arXiv MCP server                             *)
(* (src/src/arxiv_mcp_server/tools/citations.py).                          *)
(*                                                                         *)
(* Text is modelled as a sequence of one-character strings, so that        *)
(* concatenation, join, split, lower and the f-string templates are        *)
(* computed character by character as Python computes them.  The three     *)
(* entry points (format_authors, generate_citation, handle_citation) are   *)
(* operators translated branch by branch; one action per entry point       *)
(* applies it to inputs drawn from bounded sets and records the call and   *)
(* what it returned.                                                       *)
(***************************************************************************)
EXTENDS Integers, Sequences, FiniteSets, TLC

VARIABLES pc, op, args, ret, calls

vars == <<pc, op, args, ret, calls>>

(***************************************************************************)
(* Bounds of the model.                                                    *)
(***************************************************************************)
\* longest author list handed to format_authors / generate_citation
MaxAuthors == 8
\* longest author list of a paper the metadata provider returns
MaxProviderAuthors == 2

(***************************************************************************)
(* Python built-ins the code uses, on character sequences.                 *)
(***************************************************************************)
RECURSIVE join(_, _)
\* sep.join(items)
join(sep, items) ==
    IF Len(items) = 0 THEN << >>
    ELSE IF Len(items) = 1 THEN items[1]
    ELSE items[1] \o sep \o join(sep, Tail(items))

UpperCase == <<"A","B","C","D","E","F","G","H","I","J","K","L","M","N","O","P","Q","R","S","T","U","V","W","X","Y","Z">>
LowerCase == <<"a","b","c","d","e","f","g","h","i","j","k","l","m","n","o","p","q","r","s","t","u","v","w","x","y","z">>

lower_char(c) ==
    IF \E i \in 1..Len(UpperCase) : UpperCase[i] = c
    THEN LowerCase[CHOOSE i \in 1..Len(UpperCase) : UpperCase[i] = c]
    ELSE c

\* s.lower()
lower(s) ==
    IF Len(s) = 0 THEN << >> ELSE [i \in 1..Len(s) |-> lower_char(s[i])]

is_space(c) == c \in {" ", "\t", "\n"}

RECURSIVE split_scan(_, _, _, _)
split_scan(s, i, word, words) ==
    IF i > Len(s)
    THEN (IF Len(word) = 0 THEN words ELSE Append(words, word))
    ELSE IF is_space(s[i])
    THEN split_scan(s, i + 1, << >>,
                    IF Len(word) = 0 THEN words ELSE Append(words, word))
    ELSE split_scan(s, i + 1, Append(word, s[i]), words)

\* s.split(): the maximal runs of non-whitespace characters
split(s) == split_scan(s, 1, << >>, << >>)

DecimalDigits == <<"0","1","2","3","4","5","6","7","8","9">>

RECURSIVE str_int(_)
\* str(n) / f"{n}" of a non-negative int
str_int(n) ==
    IF n < 10 THEN <<DecimalDigits[n + 1]>>
    ELSE Append(str_int(n \div 10), DecimalDigits[(n % 10) + 1])

MonthNames ==
    << <<"J","a","n","u","a","r","y">>, <<"F","e","b","r","u","a","r","y">>, <<"M","a","r","c","h">>, <<"A","p","r","i","l">>, <<"M","a","y">>, <<"J","u","n","e">>,
       <<"J","u","l","y">>, <<"A","u","g","u","s","t">>, <<"S","e","p","t","e","m","b","e","r">>, <<"O","c","t","o","b","e","r">>, <<"N","o","v","e","m","b","e","r">>, <<"D","e","c","e","m","b","e","r">> >>

\* d.strftime("%B")
strftime_B(d) == MonthNames[d.month]

\* d.strftime("%d %B %Y"): the day zero-padded to two digits
strftime_dBY(d) ==
    (IF d.day < 10 THEN <<"0">> ELSE << >>) \o str_int(d.day)
        \o <<" ">> \o MonthNames[d.month] \o <<" ">> \o str_int(d.year)

\* x in a_list
list_contains(items, x) == \E i \in 1..Len(items) : items[i] = x

(***************************************************************************)
(* A call either returns a value or raises an exception; msg is str(e).    *)
(***************************************************************************)
Return(v) == [ok |-> TRUE, val |-> v, exc |-> "", msg |-> << >>]
Raise(e, m) == [ok |-> FALSE, val |-> << >>, exc |-> e, msg |-> m]

\* the exception classes of this model that derive from Exception
ExceptionClasses ==
    {"KeyError", "AttributeError", "IndexError", "StopIteration",
     "HTTPError", "ConnectionError", "ValueError"}

(***************************************************************************)
(* citations.py                                                            *)
(***************************************************************************)
CITATION_FORMATS ==
    << <<"a","p","a">>, <<"m","l","a">>, <<"c","h","i","c","a","g","o">>, <<"h","a","r","v","a","r","d">>, <<"i","e","e","e">>, <<"b","i","b","t","e","x">> >>

first_et_al(authors) == authors[1] \o <<" ","e","t"," ","a","l",".">>

all_but_last_and_last(authors) ==
    join(<<","," ">>, SubSeq(authors, 1, Len(authors) - 1))
        \o <<","," ","a","n","d"," ">> \o authors[Len(authors)]

format_authors_apa(authors) ==
    IF Len(authors) = 1 THEN authors[1]
    ELSE IF Len(authors) = 2 THEN authors[1] \o <<" ","&"," ">> \o authors[2]
    ELSE first_et_al(authors)

format_authors_mla(authors) ==
    IF Len(authors) = 1 THEN authors[1]
    ELSE IF Len(authors) = 2 THEN authors[1] \o <<","," ","a","n","d"," ">> \o authors[2]
    ELSE first_et_al(authors)

\* the chicago branch with the threshold one too low
format_authors_chicago_off_by_one(authors) ==
    IF Len(authors) = 1 THEN authors[1]
    ELSE IF Len(authors) = 2 THEN authors[1] \o <<" ","a","n","d"," ">> \o authors[2]
    ELSE IF Len(authors) < 7 THEN all_but_last_and_last(authors)
    ELSE first_et_al(authors)

format_authors_chicago(authors) ==
    IF Len(authors) = 1 THEN authors[1]
    ELSE IF Len(authors) = 2 THEN authors[1] \o <<" ","a","n","d"," ">> \o authors[2]
    ELSE IF Len(authors) <= 7 THEN all_but_last_and_last(authors)
    ELSE first_et_al(authors)

format_authors_harvard(authors) ==
    IF Len(authors) = 1 THEN authors[1]
    ELSE IF Len(authors) = 2 THEN authors[1] \o <<" ","a","n","d"," ">> \o authors[2]
    ELSE IF Len(authors) = 3
    THEN authors[1] \o <<","," ">> \o authors[2] \o <<" ","a","n","d"," ">> \o authors[3]
    ELSE first_et_al(authors)

format_authors_ieee(authors) ==
    IF Len(authors) = 1 THEN authors[1]
    ELSE IF Len(authors) = 2 THEN authors[1] \o <<" ","a","n","d"," ">> \o authors[2]
    ELSE all_but_last_and_last(authors)

format_authors(authors, format_type) ==
    IF Len(authors) = 0 THEN << >>
    ELSE IF format_type = <<"a","p","a">> THEN format_authors_apa(authors)
    ELSE IF format_type = <<"m","l","a">> THEN format_authors_mla(authors)
    ELSE IF format_type = <<"c","h","i","c","a","g","o">> THEN format_authors_chicago(authors)
    ELSE IF format_type = <<"h","a","r","v","a","r","d">> THEN format_authors_harvard(authors)
    ELSE IF format_type = <<"i","e","e","e">> THEN format_authors_ieee(authors)
    ELSE join(<<","," ">>, authors)

\* authors[0].split()[-1] if authors else "Unknown", without the guard
first_author_last_unguarded(authors) ==
    IF Len(authors) = 0 \/ Len(split(authors[1])) = 0
    THEN Raise("IndexError", <<"l","i","s","t"," ","i","n","d","e","x"," ","o","u","t"," ","o","f"," ","r","a","n","g","e">>)
    ELSE Return(split(authors[1])[Len(split(authors[1]))])

\* authors[0].split()[-1] if authors else "Unknown"
first_author_last(authors) ==
    IF Len(authors) > 0
    THEN (IF Len(split(authors[1])) = 0
          THEN Raise("IndexError", <<"l","i","s","t"," ","i","n","d","e","x"," ","o","u","t"," ","o","f"," ","r","a","n","g","e">>)
          ELSE Return(split(authors[1])[Len(split(authors[1]))]))
    ELSE Return(<<"U","n","k","n","o","w","n">>)

\* the author field built from the abbreviated author text
bibtex_author_line_abbreviated(authors) ==
    <<" "," ","a","u","t","h","o","r"," ","="," ","{">> \o format_authors(authors, <<"a","p","a">>) \o <<"}",",","\n">>

bibtex_author_line(authors) ==
    <<" "," ","a","u","t","h","o","r"," ","="," ","{">> \o join(<<" ","a","n","d"," ">>, authors) \o <<"}",",","\n">>

bibtex_entry(paper, last) ==
    <<"@","a","r","t","i","c","l","e","{">> \o lower(last) \o str_int(paper.published.year) \o <<",","\n">>
        \o bibtex_author_line(paper.authors)
        \o <<" "," ","t","i","t","l","e"," ","="," ","{">> \o paper.title \o <<"}",",","\n">>
        \o <<" "," ","j","o","u","r","n","a","l"," ","="," ","{","a","r","X","i","v"," ","p","r","e","p","r","i","n","t"," ","a","r","X","i","v",":">> \o paper.short_id \o <<"}",",","\n">>
        \o <<" "," ","y","e","a","r"," ","="," ","{">> \o str_int(paper.published.year) \o <<"}",",","\n">>
        \o <<" "," ","u","r","l"," ","="," ","{">> \o paper.entry_id \o <<"}","\n">>
        \o <<"}">>

\* now is the value datetime.now() returns during the call
generate_citation(paper, format_type, now) ==
    LET title == paper.title
        authors == paper.authors
        year == str_int(paper.published.year)
        month == strftime_B(paper.published)
        url == paper.entry_id
        arxiv_id == paper.short_id
        formatted_authors == format_authors(authors, format_type)
    IN  IF format_type = <<"a","p","a">>
        THEN Return(formatted_authors \o <<" ","(">> \o year \o <<")","."," ">> \o title
                    \o <<"."," ","a","r","X","i","v"," ","p","r","e","p","r","i","n","t"," ","a","r","X","i","v",":">> \o arxiv_id \o <<"."," ">> \o url)
        ELSE IF format_type = <<"m","l","a">>
        THEN Return(formatted_authors \o <<"."," ","\"">> \o title \o <<".","\""," ","a","r","X","i","v",","," ">>
                    \o month \o <<" ">> \o year \o <<","," ">> \o url \o <<".">>)
        ELSE IF format_type = <<"c","h","i","c","a","g","o">>
        THEN Return(formatted_authors \o <<"."," ","\"">> \o title
                    \o <<".","\""," ","a","r","X","i","v"," ","p","r","e","p","r","i","n","t"," ","a","r","X","i","v",":">> \o arxiv_id
                    \o <<" ","(">> \o year \o <<")","."," ">> \o url \o <<".">>)
        ELSE IF format_type = <<"h","a","r","v","a","r","d">>
        THEN Return(formatted_authors \o <<","," ">> \o year \o <<"."," ">> \o title
                    \o <<"."," ","a","r","X","i","v",":">> \o arxiv_id \o <<"."," ","A","v","a","i","l","a","b","l","e"," ","a","t",":"," ">> \o url
                    \o <<" ","[","A","c","c","e","s","s","e","d"," ">> \o strftime_dBY(now) \o <<"]",".">>)
        ELSE IF format_type = <<"i","e","e","e">>
        THEN Return(formatted_authors \o <<","," ","\"">> \o title \o <<",","\""," ","a","r","X","i","v",":">>
                    \o arxiv_id \o <<","," ">> \o year \o <<".">>)
        ELSE IF format_type = <<"b","i","b","t","e","x">>
        THEN (IF first_author_last(authors).ok
              THEN Return(bibtex_entry(paper, first_author_last(authors).val))
              ELSE first_author_last(authors))
        ELSE Return(formatted_authors \o <<"."," ">> \o title \o <<"."," ","a","r","X","i","v",":">>
                    \o arxiv_id \o <<","," ">> \o year \o <<"."," ">> \o url)

(***************************************************************************)
(* json.dumps of a dict whose keys and values are str: members is the      *)
(* dict's items in insertion order.  The text is ASCII in this model, so   *)
(* ensure_ascii changes nothing.                                           *)
(***************************************************************************)
json_escape_char(c) ==
    IF c = "\"" THEN <<"\\","\"">>
    ELSE IF c = "\\" THEN <<"\\","\\">>
    ELSE IF c = "\n" THEN <<"\\","n">>
    ELSE IF c = "\t" THEN <<"\\","t">>
    ELSE <<c>>

RECURSIVE json_escape(_)
\* every character escaped, in order (the text is halved to keep the
\* evaluation shallow)
json_escape(s) ==
    IF Len(s) = 0 THEN << >>
    ELSE IF Len(s) = 1 THEN json_escape_char(s[1])
    ELSE json_escape(SubSeq(s, 1, Len(s) \div 2))
             \o json_escape(SubSeq(s, (Len(s) \div 2) + 1, Len(s)))

json_string(s) == <<"\"">> \o json_escape(s) \o <<"\"">>

json_dumps(members) ==
    <<"{">> \o join(<<","," ">>, [i \in 1..Len(members) |->
                          json_string(members[i][1]) \o <<":"," ">>
                              \o json_string(members[i][2])])
        \o <<"}">>

TextContent(text) == [type |-> "text", text |-> text]

(***************************************************************************)
(* handle_citation                                                         *)
(***************************************************************************)
\* the format check skipped
format_supported_always(format_type) == TRUE

\* format_type in CITATION_FORMATS
format_supported(format_type) == list_contains(CITATION_FORMATS, format_type)

\* the message without the supported formats
unsupported_message_without_list(format_type) ==
    <<"U","n","s","u","p","p","o","r","t","e","d"," ","c","i","t","a","t","i","o","n"," ","f","o","r","m","a","t",":"," ">> \o format_type

unsupported_message(format_type) ==
    <<"U","n","s","u","p","p","o","r","t","e","d"," ","c","i","t","a","t","i","o","n"," ","f","o","r","m","a","t",":"," ">> \o format_type
        \o <<"."," ","S","u","p","p","o","r","t","e","d"," ","f","o","r","m","a","t","s",":"," ">> \o join(<<","," ">>, CITATION_FORMATS)

not_found_message(paper_id) == <<"P","a","p","e","r"," ">> \o paper_id \o <<" ","n","o","t"," ","f","o","u","n","d"," ","o","n"," ","a","r","X","i","v">>

error_message(e) == <<"E","r","r","o","r",":"," ">> \o e.msg

error_envelope(message) ==
    <<TextContent(json_dumps(<< <<<<"s","t","a","t","u","s">>, <<"e","r","r","o","r">>>>,
                                <<<<"m","e","s","s","a","g","e">>, message>> >>))>>

success_envelope(paper_id, format_type, citation) ==
    <<TextContent(json_dumps(<< <<<<"s","t","a","t","u","s">>, <<"s","u","c","c","e","s","s">>>>,
                                <<<<"p","a","p","e","r","_","i","d">>, paper_id>>,
                                <<<<"f","o","r","m","a","t">>, format_type>>,
                                <<<<"c","i","t","a","t","i","o","n">>, citation>> >>))>>

\* arguments.get("format", "apa")
get_format(arguments) ==
    IF arguments.format.type = "missing"
    THEN [type |-> "str", val |-> <<"a","p","a">>]
    ELSE arguments.format

\* The body of the try block.  provider is what
\* next(client.results(arxiv.Search(id_list=[paper_id]))) does in this call.
\* calls lists the collaborators invoked, in order.
try_body(arguments, provider, now) ==
    IF arguments.paper_id.type = "missing"
    THEN [out |-> Raise("KeyError", <<"'","p","a","p","e","r","_","i","d","'">>), calls |-> << >>]
    ELSE IF get_format(arguments).type # "str"
    THEN [out |-> Raise("AttributeError",
                        <<"'","N","o","n","e","T","y","p","e","'"," ","o","b","j","e","c","t"," ","h","a","s"," ","n","o"," ","a","t","t","r","i","b","u","t","e"," ","'","l","o","w","e","r","'">>),
          calls |-> << >>]
    ELSE LET paper_id == arguments.paper_id.val
             format_type == lower(get_format(arguments).val)
             fetch == <<"results", paper_id>>
             render == <<"generate_citation", format_type>>
         IN  IF ~format_supported(format_type)
             THEN [out |-> Return(error_envelope(unsupported_message(format_type))),
                   calls |-> << >>]
             ELSE IF provider.kind = "raise"
             THEN [out |-> Raise(provider.exc, provider.msg),
                   calls |-> <<fetch>>]
             ELSE IF provider.kind = "empty"
             THEN [out |-> Raise("StopIteration", << >>), calls |-> <<fetch>>]
             ELSE IF ~generate_citation(provider.paper, format_type, now).ok
             THEN [out |-> generate_citation(provider.paper, format_type, now),
                   calls |-> <<fetch, render>>]
             ELSE [out |-> Return(success_envelope(paper_id, format_type,
                       generate_citation(provider.paper, format_type, now).val)),
                   calls |-> <<fetch, render>>]

\* the except clauses with "except Exception" tried first
except_clauses_generic_first(e, arguments) ==
    IF e.exc \in ExceptionClasses
    THEN Return(error_envelope(error_message(e)))
    ELSE e

\* the except clauses without "except Exception"
except_clauses_stop_iteration_only(e, arguments) ==
    IF e.exc = "StopIteration" /\ arguments.paper_id.type = "str"
    THEN Return(error_envelope(not_found_message(arguments.paper_id.val)))
    ELSE e

\* except StopIteration: ... except Exception as e: ...
except_clauses(e, arguments) ==
    IF e.exc = "StopIteration"
    THEN (IF arguments.paper_id.type = "missing"
          THEN Raise("UnboundLocalError", <<"p","a","p","e","r","_","i","d">>)
          ELSE Return(error_envelope(not_found_message(arguments.paper_id.val))))
    ELSE IF e.exc \in ExceptionClasses
    THEN Return(error_envelope(error_message(e)))
    ELSE e

handle_citation(arguments, provider, now) ==
    IF try_body(arguments, provider, now).out.ok
    THEN try_body(arguments, provider, now)
    ELSE [out |-> except_clauses(try_body(arguments, provider, now).out, arguments),
          calls |-> try_body(arguments, provider, now).calls]

(***************************************************************************)
(* The inputs of the calls.                                                *)
(***************************************************************************)
SeqsUpTo(S, n) == UNION {[1..k -> S] : k \in 0..n}

\* author display names; a blank name has no whitespace-separated token
Names == {<<"A","."," ","T","u","r","i","n","g">>, <<"B","o"," ","L","i">>}
BlankNames == {<<" ">>, << >>}

\* the fixture of tests/test_citations.py
mock_arxiv_paper ==
    [title |-> <<"U","n","d","e","r","s","t","a","n","d","i","n","g"," ","D","e","e","p"," ","L","e","a","r","n","i","n","g"," ","R","e","q","u","i","r","e","s"," ","R","e","t","h","i","n","k","i","n","g"," ","G","e","n","e","r","a","l","i","z","a","t","i","o","n">>,
     authors |-> << <<"Z","h","a","n","g",","," ","C","h","i","y","u","a","n">>, <<"B","e","n","g","i","o",","," ","S","a","m","y">>, <<"H","a","r","d","t",","," ","M","o","r","i","t","z">>,
                    <<"R","e","c","h","t",","," ","B","e","n","j","a","m","i","n">>, <<"V","i","n","y","a","l","s",","," ","O","r","i","o","l">> >>,
     published |-> [year |-> 2017, month |-> 2, day |-> 15],
     entry_id |-> <<"h","t","t","p",":","/","/","a","r","x","i","v",".","o","r","g","/","a","b","s","/","1","6","1","1",".","0","3","5","3","0","v","2">>,
     short_id |-> <<"1","6","1","1",".","0","3","5","3","0">>]

AuthorLists ==
    SeqsUpTo(Names, MaxAuthors)
        \cup {<<b>> \o rest : b \in BlankNames, rest \in SeqsUpTo(Names, 1)}

paper_with(authors) ==
    [title |-> <<"O","n"," ","G","r","a","p","h","s">>,
     authors |-> authors,
     published |-> [year |-> 1999, month |-> 11, day |-> 30],
     entry_id |-> <<"h","t","t","p",":","/","/","a","r","x","i","v",".","o","r","g","/","a","b","s","/","c","s","/","9","9","1","1","0","0","1","v","1">>,
     short_id |-> <<"c","s","/","9","9","1","1","0","0","1","v","1">>]

Papers == {paper_with(a) : a \in AuthorLists} \cup {mock_arxiv_paper}

\* the format_type values of direct calls: the six formats and another value
FormatTypes ==
    {CITATION_FORMATS[i] : i \in 1..Len(CITATION_FORMATS)}
        \cup {<<"i","n","v","a","l","i","d","_","f","o","r","m","a","t">>}

\* the values datetime.now() takes
Clocks ==
    {[year |-> 2026, month |-> 11, day |-> 3],
     [year |-> 2027, month |-> 1, day |-> 15]}

\* a value of the arguments dict: absent, a str, or None
Missing == [type |-> "missing", val |-> << >>]
None == [type |-> "NoneType", val |-> << >>]
Str(s) == [type |-> "str", val |-> s]

PaperIdArgs == {Str(<<"1","6","1","1",".","0","3","5","3","0">>), Str(<<"c","s","/","9","9","1","1","0","0","1">>), Missing}

FormatArgs ==
    {Str(s) : s \in {<<"a","p","a">>, <<"A","P","A">>, <<"M","l","a">>, <<"C","H","I","C","A","G","O">>, <<"h","a","r","v","a","r","d">>, <<"I","e","e","e">>,
                     <<"b","i","b","t","e","x">>, <<"B","i","b","T","e","X">>, <<"i","n","v","a","l","i","d","_","f","o","r","m","a","t">>, <<"B","i","b","t","e","x","2">>, << >>}}
        \cup {Missing, None}

Arguments == [paper_id : PaperIdArgs, format : FormatArgs]

\* what the metadata provider does in a call: yields a paper, yields
\* nothing, or raises
NoPaper == paper_with(<< >>)
Found(paper) == [kind |-> "result", paper |-> paper, exc |-> "", msg |-> << >>]
Empty == [kind |-> "empty", paper |-> NoPaper, exc |-> "", msg |-> << >>]
Failed(e, m) == [kind |-> "raise", paper |-> NoPaper, exc |-> e, msg |-> m]

ProviderFailures ==
    {Failed("HTTPError", <<"P","a","g","e"," ","r","e","q","u","e","s","t"," ","r","e","s","u","l","t","e","d"," ","i","n"," ","H","T","T","P"," ","5","0","3">>),
     Failed("ConnectionError", <<"P","a","p","e","r"," ","1","6","1","1",".","0","3","5","3","0"," ","n","o","t"," ","f","o","u","n","d"," ","o","n"," ","a","r","X","i","v">>),
     Failed("ValueError", << >>)}

ProviderPapers ==
    {p \in Papers : Len(p.authors) <= MaxProviderAuthors}
        \cup {mock_arxiv_paper}

ProviderOutcomes ==
    {Found(p) : p \in ProviderPapers} \cup {Empty} \cup ProviderFailures

(***************************************************************************)
(* The state machine.  The module keeps no state between calls, so a       *)
(* behaviour is one call: Init draws the entry point (op) and its          *)
(* arguments (args); the entry point's action runs it and records what it  *)
(* returned or raised (ret) and the collaborators it invoked (calls).      *)
(***************************************************************************)
Init ==
    /\ pc = "called"
    /\ ret = << >>
    /\ calls = << >>
    /\ \/ /\ op = "format_authors"
          /\ args \in [authors : AuthorLists, format_type : FormatTypes]
       \/ /\ op = "generate_citation"
          /\ args \in [paper : Papers, format_type : FormatTypes, now : Clocks]
       \/ /\ op = "handle_citation"
          /\ args \in [arguments : Arguments, provider : ProviderOutcomes,
                       now : Clocks]

FormatAuthors ==
    /\ pc = "called"
    /\ op = "format_authors"
    /\ ret' = format_authors(args.authors, args.format_type)
    /\ pc' = "returned"
    /\ UNCHANGED <<op, args, calls>>

GenerateCitation ==
    /\ pc = "called"
    /\ op = "generate_citation"
    /\ ret' = generate_citation(args.paper, args.format_type, args.now)
    /\ pc' = "returned"
    /\ UNCHANGED <<op, args, calls>>

HandleCitation ==
    /\ pc = "called"
    /\ op = "handle_citation"
    /\ ret' = handle_citation(args.arguments, args.provider, args.now).out
    /\ calls' = handle_citation(args.arguments, args.provider, args.now).calls
    /\ pc' = "returned"
    /\ UNCHANGED <<op, args>>

Next == FormatAuthors \/ GenerateCitation \/ HandleCitation

Spec == Init /\ [][Next]_vars

(***************************************************************************)
(* Reading a result, as the tests do.                                      *)
(***************************************************************************)
RECURSIVE backslash_run(_, _)
\* how many backslashes end at position i of t
backslash_run(t, i) ==
    IF i < 1 THEN 0
    ELSE IF t[i] # "\\" THEN 0
    ELSE 1 + backslash_run(t, i - 1)

\* the character at position i follows the backslash of an escape
json_escaped(t, i) == backslash_run(t, i - 1) % 2 = 1

json_unescape_char(c) ==
    IF c = "n" THEN "\n" ELSE IF c = "t" THEN "\t" ELSE c

\* the str between the quotes at positions a and b
json_string_between(t, a, b) ==
    LET kept == SelectSeq([k \in 1..(b - a - 1) |-> a + k],
                          LAMBDA j : ~(t[j] = "\\" /\ ~json_escaped(t, j)))
    IN  [k \in 1..Len(kept) |->
            IF json_escaped(t, kept[k]) THEN json_unescape_char(t[kept[k]])
            ELSE t[kept[k]]]

\* json.loads(text) of an object whose members are strings: its items
json_loads(t) ==
    LET q == SelectSeq([i \in 1..Len(t) |-> i],
                       LAMBDA i : t[i] = "\"" /\ ~json_escaped(t, i))
    IN  [m \in 1..(Len(q) \div 4) |->
            <<json_string_between(t, q[4 * m - 3], q[4 * m - 2]),
              json_string_between(t, q[4 * m - 1], q[4 * m])>>]

\* response[key]
json_get(members, key) ==
    members[CHOOSE i \in 1..Len(members) : members[i][1] = key][2]

(***************************************************************************)
(* Vocabulary of the properties.                                           *)
(***************************************************************************)
Returned(entry) == pc = "returned" /\ op = entry

Contains(text, part) ==
    \E i \in 0..(Len(text) - Len(part)) : SubSeq(text, i + 1, i + Len(part)) = part

StartsWith(text, part) ==
    Len(part) <= Len(text) /\ SubSeq(text, 1, Len(part)) = part

RECURSIVE Joined(_, _)
\* the names in order with sep between neighbours
Joined(names, sep) ==
    IF Len(names) = 0 THEN << >>
    ELSE IF Len(names) = 1 THEN names[1]
    ELSE Joined(SubSeq(names, 1, Len(names) - 1), sep) \o sep \o names[Len(names)]

\* the line-th line of text
Line(text, line) ==
    LET ends == SelectSeq([i \in 1..Len(text) |-> i], LAMBDA i : text[i] = "\n")
    IN  SubSeq(text, IF line = 1 THEN 1 ELSE ends[line - 1] + 1, ends[line] - 1)

\* the six recognized names
SixNames == {<<"a","p","a">>, <<"m","l","a">>, <<"c","h","i","c","a","g","o">>, <<"h","a","r","v","a","r","d">>, <<"i","e","e","e">>, <<"b","i","b","t","e","x">>}

\* the envelope a handle_citation call returned, decoded
Envelope == json_loads(ret.val[1].text)
Status == json_get(Envelope, <<"s","t","a","t","u","s">>)
Message == json_get(Envelope, <<"m","e","s","s","a","g","e">>)

\* the call supplies a paper_id
HasPaperId == args.arguments.paper_id.type = "str"

\* the format argument is a str that lower-cases to no recognized name
UnrecognizedFormat ==
    /\ args.arguments.format.type = "str"
    /\ lower(args.arguments.format.val) \notin SixNames

\* the format argument, omitted or a str, lower-cases to a recognized name
RecognizedFormat ==
    \/ args.arguments.format.type = "missing"
    \/ /\ args.arguments.format.type = "str"
       /\ lower(args.arguments.format.val) \in SixNames

RequestedFormat ==
    IF args.arguments.format.type = "missing" THEN <<"a","p","a">>
    ELSE lower(args.arguments.format.val)

ListsAllSix(message) == \A name \in SixNames : Contains(message, name)

(***************************************************************************)
(* C1 (as stated): every handle_citation call whose format argument        *)
(* lower-cases to none of the six recognized names returns status "error"  *)
(* with a message that lists all six names.  It fails for a call that      *)
(* supplies no paper_id: paper_id is read before the format is validated.  *)
(***************************************************************************)
C1_UnsupportedFormatAlwaysListed ==
    (Returned("handle_citation") /\ UnrecognizedFormat)
        => (ret.ok /\ Status = <<"e","r","r","o","r">> /\ ListsAllSix(Message))

(***************************************************************************)
(* C1 (amended): every handle_citation call that supplies a paper_id and   *)
(* whose format argument lower-cases to none of the six recognized names   *)
(* returns status "error" with a message that lists all six names.         *)
(***************************************************************************)
C1_UnsupportedFormatListed ==
    (Returned("handle_citation") /\ HasPaperId /\ UnrecognizedFormat)
        => (ret.ok /\ Status = <<"e","r","r","o","r">> /\ ListsAllSix(Message))

C1_Witness ==
    /\ Returned("handle_citation")
    /\ HasPaperId
    /\ args.arguments.format = Str(<<"i","n","v","a","l","i","d","_","f","o","r","m","a","t">>)
    /\ Status = <<"e","r","r","o","r">>
    /\ Contains(Message, <<"a","p","a",","," ","m","l","a",","," ","c","h","i","c","a","g","o",","," ","h","a","r","v","a","r","d",","," ","i","e","e","e",","," ","b","i","b","t","e","x">>)

(***************************************************************************)
(* C2: with a valid format, when metadata resolution yields no result the  *)
(* envelope has status "error" and a not-found message naming the paper,   *)
(* and that message differs from the message the same call produces for    *)
(* every other provider failure.                                           *)
(***************************************************************************)
C2_NotFoundDistinct ==
    (Returned("handle_citation") /\ HasPaperId /\ RecognizedFormat
        /\ args.provider.kind = "empty")
        => /\ ret.ok
           /\ Status = <<"e","r","r","o","r">>
           /\ Contains(Message, <<"n","o","t"," ","f","o","u","n","d">>)
           /\ Contains(Message, args.arguments.paper_id.val)
           /\ \A failure \in ProviderFailures :
                 Message # json_get(json_loads(
                     handle_citation(args.arguments, failure, args.now)
                         .out.val[1].text), <<"m","e","s","s","a","g","e">>)

C2_Witness ==
    /\ Returned("handle_citation")
    /\ args.arguments = [paper_id |-> Str(<<"1","6","1","1",".","0","3","5","3","0">>), format |-> Missing]
    /\ args.provider.kind = "empty"
    /\ Message = <<"P","a","p","e","r"," ","1","6","1","1",".","0","3","5","3","0"," ","n","o","t"," ","f","o","u","n","d"," ","o","n"," ","a","r","X","i","v">>

(***************************************************************************)
(* C3: every handle_citation call returns exactly one envelope and raises  *)
(* nothing; a failure while reading the arguments, a validation failure,   *)
(* a not-found result, a provider failure and a rendering failure each     *)
(* give status "error" with a message carrying the failure's description.  *)
(***************************************************************************)
C3_NoExceptionEscapes ==
    Returned("handle_citation")
        => /\ ret.ok
           /\ Len(ret.val) = 1
           /\ ret.val[1].type = "text"
           /\ Status \in {<<"s","u","c","c","e","s","s">>, <<"e","r","r","o","r">>}
           /\ ~HasPaperId
                 => (Status = <<"e","r","r","o","r">> /\ Contains(Message, <<"'","p","a","p","e","r","_","i","d","'">>))
           /\ (HasPaperId /\ args.arguments.format.type = "NoneType")
                 => (Status = <<"e","r","r","o","r">> /\ Contains(Message, <<"'","N","o","n","e","T","y","p","e","'"," ","o","b","j","e","c","t">>))
           /\ (HasPaperId /\ UnrecognizedFormat)
                 => (Status = <<"e","r","r","o","r">>
                     /\ Contains(Message, <<"U","n","s","u","p","p","o","r","t","e","d"," ","c","i","t","a","t","i","o","n"," ","f","o","r","m","a","t">>))
           /\ (HasPaperId /\ RecognizedFormat /\ args.provider.kind = "empty")
                 => (Status = <<"e","r","r","o","r">> /\ Contains(Message, <<"n","o","t"," ","f","o","u","n","d">>))
           /\ (HasPaperId /\ RecognizedFormat /\ args.provider.kind = "raise")
                 => (Status = <<"e","r","r","o","r">> /\ Contains(Message, args.provider.msg))
           /\ (HasPaperId /\ RecognizedFormat /\ args.provider.kind = "result"
                  /\ ~generate_citation(args.provider.paper, RequestedFormat,
                                        args.now).ok)
                 => (Status = <<"e","r","r","o","r">>
                     /\ Contains(Message,
                            generate_citation(args.provider.paper,
                                              RequestedFormat, args.now).msg))

C3_Witness ==
    /\ Returned("handle_citation")
    /\ args.provider.kind = "result"
    /\ args.provider.paper.authors = << <<" ">>, <<"B","o"," ","L","i">> >>
    /\ args.arguments.format = Str(<<"b","i","b","t","e","x">>)
    /\ ret.ok
    /\ Message = <<"E","r","r","o","r",":"," ","l","i","s","t"," ","i","n","d","e","x"," ","o","u","t"," ","o","f"," ","r","a","n","g","e">>

(***************************************************************************)
(* C4 (as stated): for every format input that lower-cases to a recognized *)
(* name (or is omitted: apa) and every paper_id that resolves to metadata, *)
(* handle_citation returns status "success" with paper_id equal to the     *)
(* input, format equal to the lower-cased name and citation equal to       *)
(* generate_citation(metadata, lower-cased name); inputs that differ only  *)
(* in letter case give the same envelope.                                  *)
(***************************************************************************)
C4_SuccessEnvelope ==
    (Returned("handle_citation") /\ HasPaperId /\ RecognizedFormat
        /\ args.provider.kind = "result")
        => /\ ret.ok
           /\ Status = <<"s","u","c","c","e","s","s">>
           /\ json_get(Envelope, <<"p","a","p","e","r","_","i","d">>) = args.arguments.paper_id.val
           /\ json_get(Envelope, <<"f","o","r","m","a","t">>) = RequestedFormat
           /\ generate_citation(args.provider.paper, RequestedFormat, args.now).ok
           /\ json_get(Envelope, <<"c","i","t","a","t","i","o","n">>)
                 = generate_citation(args.provider.paper, RequestedFormat,
                                     args.now).val
           /\ \A other \in FormatArgs :
                 (other.type = "str" /\ lower(other.val) = RequestedFormat)
                     => handle_citation([args.arguments EXCEPT !.format = other],
                                        args.provider, args.now).out = ret

(***************************************************************************)
(* C5: for every non-empty author list and each of apa, mla, chicago,      *)
(* harvard and ieee, format_authors returns the entry of the author table  *)
(* for that style and author count.                                        *)
(***************************************************************************)
AuthorTable(style, authors) ==
    LET count == Len(authors)
        X == authors[1]
        et_al == X \o <<" ","e","t"," ","a","l",".">>
        listed == Joined(SubSeq(authors, 1, count - 1), <<","," ">>)
                      \o <<","," ","a","n","d"," ">> \o authors[count]
    IN  IF count = 1 THEN X
        ELSE IF count = 2
        THEN (IF style = <<"a","p","a">> THEN X \o <<" ","&"," ">> \o authors[2]
              ELSE IF style = <<"m","l","a">> THEN X \o <<","," ","a","n","d"," ">> \o authors[2]
              ELSE X \o <<" ","a","n","d"," ">> \o authors[2])
        ELSE IF style \in {<<"a","p","a">>, <<"m","l","a">>} THEN et_al
        ELSE IF style = <<"c","h","i","c","a","g","o">>
        THEN (IF count <= 7 THEN listed ELSE et_al)
        ELSE IF style = <<"h","a","r","v","a","r","d">>
        THEN (IF count = 3
              THEN X \o <<","," ">> \o authors[2] \o <<" ","a","n","d"," ">> \o authors[3]
              ELSE et_al)
        ELSE listed

C5_AuthorTable ==
    (Returned("format_authors") /\ Len(args.authors) >= 1
        /\ args.format_type \in {<<"a","p","a">>, <<"m","l","a">>, <<"c","h","i","c","a","g","o">>, <<"h","a","r","v","a","r","d">>, <<"i","e","e","e">>})
        => ret = AuthorTable(args.format_type, args.authors)

C5_Witness ==
    /\ Returned("format_authors")
    /\ args.format_type = <<"c","h","i","c","a","g","o">>
    /\ Len(args.authors) = 7
    /\ args.authors[1] # args.authors[7]
    /\ ret = Joined(SubSeq(args.authors, 1, 6), <<","," ">>)
                 \o <<","," ","a","n","d"," ">> \o args.authors[7]

(***************************************************************************)
(* C6: whenever generate_citation produces a bibtex citation, its author   *)
(* field holds every author of the metadata, in order, joined with         *)
(* " and ", at every author count, including the counts at which           *)
(* format_authors collapses the list to "et al." for other styles.         *)
(***************************************************************************)
C6_BibtexAllAuthors ==
    (Returned("generate_citation") /\ args.format_type = <<"b","i","b","t","e","x">> /\ ret.ok)
        => Line(ret.val, 2)
               = <<" "," ","a","u","t","h","o","r"," ","="," ","{">> \o Joined(args.paper.authors, <<" ","a","n","d"," ">>) \o <<"}",",">>

C6_Witness ==
    /\ Returned("generate_citation")
    /\ args.format_type = <<"b","i","b","t","e","x">>
    /\ Len(args.paper.authors) >= 8
    /\ args.paper.authors[1] # args.paper.authors[8]
    /\ format_authors(args.paper.authors, <<"c","h","i","c","a","g","o">>)
           = args.paper.authors[1] \o <<" ","e","t"," ","a","l",".">>
    /\ ret.ok
    /\ ~Contains(ret.val, <<"e","t"," ","a","l",".">>)

(***************************************************************************)
(* C7 (as stated): for the fixture metadata (first author "Zhang,          *)
(* Chiyuan", year 2017, short id 1611.03530) the bibtex citation           *)
(* generate_citation produces begins with "@article{zhang2017,".           *)
(***************************************************************************)
C7_FixtureKeyIsZhang2017 ==
    (Returned("generate_citation") /\ args.paper = mock_arxiv_paper
        /\ args.format_type = <<"b","i","b","t","e","x">>)
        => (ret.ok /\ StartsWith(ret.val, <<"@","a","r","t","i","c","l","e","{","z","h","a","n","g","2","0","1","7",",">>))

(***************************************************************************)
(* C8: for an empty author list format_authors returns the empty text for  *)
(* every style value, and the bibtex entry key generate_citation produces  *)
(* is "unknown" followed by the year.                                      *)
(***************************************************************************)
C8_EmptyAuthors ==
    /\ (Returned("format_authors") /\ Len(args.authors) = 0) => ret = << >>
    /\ (Returned("generate_citation") /\ Len(args.paper.authors) = 0
           /\ args.format_type = <<"b","i","b","t","e","x">>)
           => (ret.ok
               /\ StartsWith(ret.val,
                      <<"@","a","r","t","i","c","l","e","{","u","n","k","n","o","w","n">>
                          \o str_int(args.paper.published.year) \o <<",">>))

C8_Witness ==
    /\ Returned("generate_citation")
    /\ Len(args.paper.authors) = 0
    /\ args.format_type = <<"b","i","b","t","e","x">>
    /\ ret.ok
    /\ StartsWith(ret.val, <<"@","a","r","t","i","c","l","e","{","u","n","k","n","o","w","n","1","9","9","9",",","\n"," "," ","a","u","t","h","o","r"," ","="," ","{","}",",">>)

(***************************************************************************)
(* C9: in every handle_citation call the format is validated before        *)
(* metadata resolution and rendering: a call whose format does not         *)
(* lower-case to a recognized name invokes neither the provider nor        *)
(* generate_citation, and generate_citation is only ever invoked after     *)
(* the provider and with one of the six recognized names.                  *)
(***************************************************************************)
C9_ValidationFirst ==
    Returned("handle_citation")
        => /\ ~RecognizedFormat => calls = << >>
           /\ \A i \in 1..Len(calls) :
                 calls[i][1] = "generate_citation"
                     => /\ calls[i][2] \in SixNames
                        /\ i > 1
                        /\ calls[i - 1][1] = "results"

C9_Witness ==
    /\ Returned("handle_citation")
    /\ HasPaperId
    /\ args.arguments.format = Str(<<"i","n","v","a","l","i","d","_","f","o","r","m","a","t">>)
    /\ args.provider.kind = "result"
    /\ calls = << >>
    /\ Status = <<"e","r","r","o","r">>

(***************************************************************************)
(* C10 (as stated): generate_citation is total over the six valid styles:  *)
(* for every metadata (any list of author display names) and each of the   *)
(* six styles it returns a citation text and never fails.                  *)
(***************************************************************************)
C10_RenderNeverFails ==
    (Returned("generate_citation") /\ args.format_type \in SixNames) => ret.ok

====
